---- MODULE Spec2Model ----
(***************************************************************************)
(* The background-task facade of jurisai (src/src/jurisai/api.py): the     *)
(* in-memory task_store, the four submit endpoints, the three background   *)
(* executors, the status query, the task listing and the health check,     *)
(* all running on one asyncio event loop.  The orchestrator (crew.py) is   *)
(* an opaque collaborator: a call to it may return any Result, raise, or   *)
(* never return.                                                           *)
(***************************************************************************)
EXTENDS Integers, Sequences, FiniteSets, TLC

VARIABLES
    started,       \* the startup event has run; requests are served only after it
    orchestrator,  \* TRUE iff the global `orchestrator` is not None
    task_store,    \* the global dict: task_id -> record (a dict with optional keys)
    issued,        \* every value uuid.uuid4() has returned so far
    background,    \* background_tasks.add_task entries not yet finished: task_id -> [fn, inputs]
    pc,            \* where each task's request/executor stands
    running,       \* the executor occupying the event loop ({} when the loop is free)
    collab,        \* per task: the arguments of its collaborator call (<<>> before the call)
    ret,           \* per task: what the collaborator call produced (<<>> while it has not ended)
    exc,           \* per task: the exception `e` caught by the executor's except clause
    responded,     \* task ids already returned to a client in a TaskResponse
    resp           \* the HTTP response being sent (<<>> once the client has it)

vars == <<started, orchestrator, task_store, issued, background, pc, running,
          collab, ret, exc, responded, resp>>

----------------------------------------------------------------------------
(* Bounds *)

MaxTasks == 2

TaskIds == 1..MaxTasks

(* Request payloads *)
CaseTypes == {"general", "corporate", "appeals"}
AnalysisTypes == {"comprehensive", "risk_assessment"}

(* Messages the collaborator can fail with *)
ExcMsgs == {"boom"}
ErrMsgs == {"llm unavailable"}

----------------------------------------------------------------------------
(* Python values *)

None == <<>>
Some(v) == <<v>>

\* d[k] = v on a dict
Put(d, k, v) == [x \in (DOMAIN d) \cup {k} |-> IF x = k THEN v ELSE d[x]]

\* d.get(k) as an optional
GetOpt(d, k) == IF k \in DOMAIN d THEN Some(d[k]) ELSE None

\* d.get(k, dflt)
GetOr(d, k, dflt) == IF k \in DOMAIN d THEN d[k] ELSE dflt

\* del-free removal of a finished background entry
Drop(d, k) == [x \in (DOMAIN d) \ {k} |-> d[x]]

\* str(KeyError(k))
KeyErrorMsg(k) == "'" \o k \o "'"

EmptyDict == <<>>

IsTerminal(s) == s \in {"completed", "failed"}

----------------------------------------------------------------------------
(* Initial state: module import, before the startup event *)

Init ==
    /\ started = FALSE
    /\ orchestrator = FALSE
    /\ task_store = EmptyDict
    /\ issued = {}
    /\ background = EmptyDict
    /\ pc = [t \in TaskIds |-> "idle"]
    /\ running = {}
    /\ collab = [t \in TaskIds |-> None]
    /\ ret = [t \in TaskIds |-> None]
    /\ exc = [t \in TaskIds |-> None]
    /\ responded = {}
    /\ resp = None

\* fault variant of LoopFree: executors run on worker threads, so the event
\* loop serves requests while an executor is inside its collaborator call
LoopFree_threaded == started /\ resp = None

\* The event loop is free to run a request handler or start a background task:
\* no executor occupies it and the previous response has left
LoopFree == started /\ running = {} /\ resp = None

\* An HTTP response to the request `request` of endpoint `op`
Reply(op, request, code, body) ==
    Some([op |-> op, request |-> request, code |-> code, body |-> body])

\* datetime.now().isoformat(): an opaque value, named by the statement that
\* read the clock and the task it read it for
Now(site, t) == <<site, t>>

\* the response reaches the client
send_response ==
    /\ resp # None
    /\ resp' = None
    /\ UNCHANGED <<started, orchestrator, task_store, issued, background, pc,
                   running, collab, ret, exc, responded>>

\* startup_event: the constructor either succeeds or raises (swallowed)
startup_event ==
    /\ ~started
    /\ started' = TRUE
    /\ \E ok \in BOOLEAN : orchestrator' = ok
    /\ UNCHANGED <<task_store, issued, background, pc, running, collab, ret,
                   exc, responded, resp>>

----------------------------------------------------------------------------
(* Submit endpoints *)

\* fault variant of uuid4: identifiers can repeat
uuid4_reused == TaskIds

\* uuid.uuid4(): a value it never returned before (identifiers are
\* interchangeable, so the least unused one stands for any of them)
uuid4 == {t \in TaskIds \ issued : \A u \in TaskIds \ issued : t <= u}

\* the dict a submit endpoint stores for a new task
NewRecord(tid, type) == [status |-> "pending", created_at |-> Now("created_at", tid), type |-> type]

\* raise HTTPException(status_code=503, ...)
ServiceNotReady(op, request) ==
    /\ resp' = Reply(op, request, 503, [detail |-> "Service not ready. Orchestrator not initialized."])
    /\ UNCHANGED <<task_store, issued, background, pc, responded>>

\* task_store[task_id] = {...}; background_tasks.add_task(fn, task_id, inputs);
\* return TaskResponse(task_id, "pending", message)
Accept(op, request, tid, record, fn, inputs, message) ==
    /\ task_store' = Put(task_store, tid, record)
    /\ background' = Put(background, tid, [fn |-> fn, inputs |-> inputs])
    /\ pc' = [pc EXCEPT ![tid] = "scheduled"]
    /\ responded' = responded \cup {tid}
    /\ resp' = Reply(op, request, 200, [task_id |-> tid, status |-> "pending", message |-> message])

\* fault variant of legal_query: a request that finds no orchestrator tries
\* to construct one for the requests after it
legal_query_lazy_init(case_type) ==
    /\ LoopFree
    /\ IF ~orchestrator
       THEN /\ ServiceNotReady("legal_query", case_type)
            /\ \E ok \in BOOLEAN : orchestrator' = ok
       ELSE /\ \E tid \in uuid4 :
                 /\ issued' = issued \cup {tid}
                 /\ Accept("legal_query", case_type, tid, NewRecord(tid, "legal_query"),
                           "process_legal_query_task",
                           [query |-> "q", case_type |-> case_type, jurisdiction |-> "federal"],
                           "Legal query submitted for processing")
            /\ orchestrator' = orchestrator
    /\ UNCHANGED <<started, running, collab, ret, exc>>

\* POST /api/legal-query
legal_query(case_type) ==
    /\ LoopFree
    /\ IF ~orchestrator
       THEN ServiceNotReady("legal_query", case_type)
       ELSE \E tid \in uuid4 :
              /\ issued' = issued \cup {tid}
              /\ Accept("legal_query", case_type, tid, NewRecord(tid, "legal_query"),
                        "process_legal_query_task",
                        [query |-> "q", case_type |-> case_type, jurisdiction |-> "federal"],
                        "Legal query submitted for processing")
    /\ UNCHANGED <<started, orchestrator, running, collab, ret, exc>>

\* POST /api/analyze-document
analyze_document(analysis_type) ==
    /\ LoopFree
    /\ IF ~orchestrator
       THEN ServiceNotReady("analyze_document", analysis_type)
       ELSE \E tid \in uuid4 :
              /\ issued' = issued \cup {tid}
              /\ Accept("analyze_document", analysis_type, tid, NewRecord(tid, "document_analysis"),
                        "process_document_analysis_task",
                        [document_text |-> "doc", analysis_type |-> analysis_type],
                        "Document submitted for analysis")
    /\ UNCHANGED <<started, orchestrator, running, collab, ret, exc>>

\* POST /api/upload-document, up to `await file.read()`
upload_document_begin ==
    /\ LoopFree
    /\ IF ~orchestrator
       THEN ServiceNotReady("upload_document", "lease.txt")
       ELSE \E tid \in uuid4 :
              /\ issued' = issued \cup {tid}
              /\ pc' = [pc EXCEPT ![tid] = "upload"]
              /\ UNCHANGED <<task_store, background, responded, resp>>
    /\ UNCHANGED <<started, orchestrator, running, collab, ret, exc>>

\* POST /api/upload-document, after `await file.read()` has resumed
upload_document(tid) ==
    /\ LoopFree
    /\ pc[tid] = "upload"
    /\ Accept("upload_document", "lease.txt", tid,
              Put(NewRecord(tid, "document_upload"), "filename", "lease.txt"),
              "process_document_analysis_task",
              [document_text |-> "doc", analysis_type |-> "comprehensive",
               filename |-> "lease.txt"],
              "Document 'lease.txt' uploaded for analysis")
    /\ UNCHANGED <<started, orchestrator, issued, running, collab, ret, exc>>

\* fault variant of client_intake: the readiness check is missing
client_intake_unchecked(case_type) ==
    /\ LoopFree
    /\ \E tid \in uuid4 :
         /\ issued' = issued \cup {tid}
         /\ Accept("client_intake", case_type, tid, NewRecord(tid, "client_intake"),
                   "process_client_intake_task",
                   [client_name |-> "client", case_description |-> "desc",
                    case_type |-> case_type, jurisdiction |-> "federal"],
                   "Client intake submitted for processing")
    /\ UNCHANGED <<started, orchestrator, running, collab, ret, exc>>

\* POST /api/client-intake
client_intake(case_type) ==
    /\ LoopFree
    /\ IF ~orchestrator
       THEN ServiceNotReady("client_intake", case_type)
       ELSE \E tid \in uuid4 :
              /\ issued' = issued \cup {tid}
              /\ Accept("client_intake", case_type, tid, NewRecord(tid, "client_intake"),
                        "process_client_intake_task",
                        [client_name |-> "client", case_description |-> "desc",
                         case_type |-> case_type, jurisdiction |-> "federal"],
                        "Client intake submitted for processing")
    /\ UNCHANGED <<started, orchestrator, running, collab, ret, exc>>

SubmitOps == {"legal_query", "analyze_document", "upload_document", "client_intake"}

----------------------------------------------------------------------------
(* Read-only endpoints *)

\* fault variant of get_task_status: a task is reported only once it finished
get_task_status_hides_unfinished(task_id) ==
    /\ LoopFree
    /\ IF task_id \notin DOMAIN task_store
          \/ "completed_at" \notin DOMAIN task_store[task_id]
       THEN resp' = Reply("get_task_status", task_id, 404, [detail |-> "Task not found"])
       ELSE LET task == task_store[task_id] IN
            resp' = Reply("get_task_status", task_id, 200,
                          [task_id |-> task_id,
                           status |-> task["status"],
                           result |-> GetOpt(task, "result"),
                           error |-> GetOpt(task, "error"),
                           created_at |-> task["created_at"],
                           completed_at |-> GetOpt(task, "completed_at")])
    /\ UNCHANGED <<started, orchestrator, task_store, issued, background, pc,
                   running, collab, ret, exc, responded>>

\* fault variant of get_task_status: the error message is left out of the
\* response
get_task_status_drops_error(task_id) ==
    /\ LoopFree
    /\ IF task_id \notin DOMAIN task_store
       THEN resp' = Reply("get_task_status", task_id, 404, [detail |-> "Task not found"])
       ELSE LET task == task_store[task_id] IN
            resp' = Reply("get_task_status", task_id, 200,
                          [task_id |-> task_id,
                           status |-> task["status"],
                           result |-> GetOpt(task, "result"),
                           error |-> None,
                           created_at |-> task["created_at"],
                           completed_at |-> GetOpt(task, "completed_at")])
    /\ UNCHANGED <<started, orchestrator, task_store, issued, background, pc,
                   running, collab, ret, exc, responded>>

\* GET /api/task-status/{task_id}
get_task_status(task_id) ==
    /\ LoopFree
    /\ IF task_id \notin DOMAIN task_store
       THEN resp' = Reply("get_task_status", task_id, 404, [detail |-> "Task not found"])
       ELSE LET task == task_store[task_id] IN
            resp' = Reply("get_task_status", task_id, 200,
                          [task_id |-> task_id,
                           status |-> task["status"],
                           result |-> GetOpt(task, "result"),
                           error |-> GetOpt(task, "error"),
                           created_at |-> task["created_at"],
                           completed_at |-> GetOpt(task, "completed_at")])
    /\ UNCHANGED <<started, orchestrator, task_store, issued, background, pc,
                   running, collab, ret, exc, responded>>

\* task_store.items(): the entries of the dict, one per key (an order of the
\* keys stands for the insertion order, which no endpoint exposes otherwise)
RECURSIVE Items(_)
Items(d) ==
    IF DOMAIN d = {}
    THEN <<>>
    ELSE LET k == CHOOSE x \in DOMAIN d : \A y \in DOMAIN d : x <= y
         IN  <<(<<k, d[k]>>)>> \o Items(Drop(d, k))

\* the dict the list comprehension of get_all_tasks builds for one entry
TaskSummary(item) ==
    [task_id |-> item[1],
     status |-> item[2]["status"],
     type |-> GetOpt(item[2], "type"),
     created_at |-> item[2]["created_at"]]

\* fault variant of get_all_tasks: finished tasks are left out of the list
get_all_tasks_unfinished_only ==
    /\ LoopFree
    /\ resp' = Reply("get_all_tasks", "all", 200,
                     [tasks |-> [i \in DOMAIN Items([t \in {u \in DOMAIN task_store :
                                                             ~IsTerminal(task_store[u]["status"])}
                                                     |-> task_store[t]])
                                 |-> TaskSummary(Items([t \in {u \in DOMAIN task_store :
                                                               ~IsTerminal(task_store[u]["status"])}
                                                       |-> task_store[t]])[i])],
                      total |-> Cardinality(DOMAIN task_store)])
    /\ UNCHANGED <<started, orchestrator, task_store, issued, background, pc,
                   running, collab, ret, exc, responded>>

\* GET /api/tasks
get_all_tasks ==
    /\ LoopFree
    /\ resp' = Reply("get_all_tasks", "all", 200,
                     [tasks |-> [i \in DOMAIN Items(task_store)
                                 |-> TaskSummary(Items(task_store)[i])],
                      total |-> Cardinality(DOMAIN task_store)])
    /\ UNCHANGED <<started, orchestrator, task_store, issued, background, pc,
                   running, collab, ret, exc, responded>>

\* fault variant of health_check: the orchestrator is always reported ready
health_check_always_ready ==
    /\ LoopFree
    /\ resp' = Reply("health_check", "health", 200,
                     [status |-> "healthy", timestamp |-> Now("health_check", 0),
                      orchestrator |-> "ready"])
    /\ UNCHANGED <<started, orchestrator, task_store, issued, background, pc,
                   running, collab, ret, exc, responded>>

\* GET /health
health_check ==
    /\ LoopFree
    /\ resp' = Reply("health_check", "health", 200,
                     [status |-> "healthy", timestamp |-> Now("health_check", 0),
                      orchestrator |-> IF orchestrator THEN "ready" ELSE "not ready"])
    /\ UNCHANGED <<started, orchestrator, task_store, issued, background, pc,
                   running, collab, ret, exc, responded>>

----------------------------------------------------------------------------
(* The collaborator (crew.py), seen from api.py *)

\* str(result['result']): the text of the payload
Str(payload) == payload.raw

\* what JurisAIOrchestrator.process_legal_query returns for a call
process_legal_query_returns(call) ==
    {[status |-> "success", result |-> [raw |-> "advice"],
      client_type |-> call.client_type, query |-> call.query]}
    \cup {[status |-> "error", error |-> m, query |-> call.query] : m \in ErrMsgs}

\* what JurisAIOrchestrator.analyze_document returns for a call
analyze_document_returns(call) ==
    {[status |-> "success", result |-> [raw |-> "analysis"],
      analysis_focus |-> call.analysis_focus, client_type |-> call.client_type]}
    \cup {[status |-> "error", error |-> m, analysis_focus |-> call.analysis_focus]
          : m \in ErrMsgs}

\* the Results an opaque collaborator honouring only
\* {status: success|error, payload|error} may return
OpaqueResults ==
    {[status |-> "success", result |-> [raw |-> "advice"]],
     [status |-> "error"]}

\* every Result a collaborator call may produce
Results(call) ==
    OpaqueResults \cup
    (IF call.method = "process_legal_query"
     THEN process_legal_query_returns(call)
     ELSE analyze_document_returns(call))

----------------------------------------------------------------------------
(* Background executors *)

\* fault variant of get_client_type: business_cases lacks intellectual_property
get_client_type_short_list(case_type) ==
    IF case_type \in {"corporate", "business"}
    THEN "business"
    ELSE IF case_type \in {"complex_litigation", "appeals"}
    THEN "lawyer"
    ELSE "citizen"

\* get_client_type
get_client_type(case_type) ==
    IF case_type \in {"corporate", "intellectual_property", "business"}
    THEN "business"
    ELSE IF case_type \in {"complex_litigation", "appeals"}
    THEN "lawyer"
    ELSE "citizen"

\* fault variant of analysis_focus_map: an unmapped analysis type is passed on
\* as the focus
analysis_focus_map_passthrough(analysis_type) ==
    CASE analysis_type = "comprehensive" -> "general"
      [] analysis_type = "risk_assessment" -> "risk"
      [] analysis_type = "contract_review" -> "contract"
      [] analysis_type = "compliance" -> "compliance"
      [] OTHER -> analysis_type

\* analysis_focus_map.get(analysis_type, 'general')
analysis_focus_map(analysis_type) ==
    CASE analysis_type = "comprehensive" -> "general"
      [] analysis_type = "risk_assessment" -> "risk"
      [] analysis_type = "contract_review" -> "contract"
      [] analysis_type = "compliance" -> "compliance"
      [] OTHER -> "general"

\* the arguments each executor passes to the collaborator
CallArgs(fn, inputs) ==
    CASE fn = "process_legal_query_task" ->
           [method |-> "process_legal_query",
            query |-> inputs["query"],
            client_type |-> get_client_type(GetOr(inputs, "case_type", "general")),
            jurisdiction |-> GetOr(inputs, "jurisdiction", "federal")]
      [] fn = "process_document_analysis_task" ->
           [method |-> "analyze_document",
            document_content |-> inputs["document_text"],
            analysis_focus |-> analysis_focus_map(GetOr(inputs, "analysis_type", "general")),
            client_type |-> GetOr(inputs, "client_type", "citizen")]
      [] fn = "process_client_intake_task" ->
           [method |-> "process_legal_query",
            query |-> "intake",
            client_type |-> get_client_type(inputs["case_type"]),
            jurisdiction |-> GetOr(inputs, "jurisdiction", "federal")]

\* the keys of `result` each executor reads while building the stored result,
\* in evaluation order
ResultKeys(fn) ==
    CASE fn = "process_legal_query_task" -> <<"result", "client_type", "query">>
      [] fn = "process_document_analysis_task" -> <<"result", "analysis_focus", "client_type">>
      [] fn = "process_client_intake_task" -> <<"result">>

\* the first key of ks that r lacks (the KeyError the dict display raises)
MissingKeys(ks, r) == {i \in 1..Len(ks) : ks[i] \notin DOMAIN r}

FirstMissing(ks, r) == ks[CHOOSE i \in MissingKeys(ks, r) : \A j \in MissingKeys(ks, r) : i <= j]

\* the dict stored under "result" on success
BuildResult(fn, r, inputs) ==
    CASE fn = "process_legal_query_task" ->
           [output |-> Str(r["result"]), client_type |-> r["client_type"],
            query |-> r["query"], task_type |-> "legal_query"]
      [] fn = "process_document_analysis_task" ->
           [output |-> Str(r["result"]), analysis_focus |-> r["analysis_focus"],
            client_type |-> r["client_type"], task_type |-> "document_analysis"]
      [] fn = "process_client_intake_task" ->
           [output |-> Str(r["result"]), client_name |-> inputs["client_name"],
            case_type |-> inputs["case_type"], task_type |-> "client_intake"]

\* fault variant of StoreField: the write lands in every record of the registry
StoreField_every_record(t, key, value) ==
    [u \in DOMAIN task_store |-> Put(task_store[u], key, value)]

\* one write task_store[task_id][key] = value
StoreField(t, key, value) == [task_store EXCEPT ![t] = Put(@, key, value)]

\* fault variant of ExecBegin: the executor is run inline, before the response
\* of the submit call has left
ExecBegin_inline(t) ==
    /\ started
    /\ running = {}
    /\ t \in DOMAIN background
    /\ pc[t] = "scheduled"
    /\ task_store' = StoreField(t, "status", "processing")
    /\ collab' = [collab EXCEPT ![t] = Some(CallArgs(background[t].fn, background[t].inputs))]
    /\ running' = {t}
    /\ pc' = [pc EXCEPT ![t] = "call"]
    /\ UNCHANGED <<started, orchestrator, issued, background, ret, exc,
                   responded, resp>>

\* the executor starts: task_store[task_id]["status"] = "processing", then the
\* parameters are extracted and the collaborator is called (synchronously)
ExecBegin(t) ==
    /\ LoopFree
    /\ t \in DOMAIN background
    /\ pc[t] = "scheduled"
    /\ task_store' = StoreField(t, "status", "processing")
    /\ collab' = [collab EXCEPT ![t] = Some(CallArgs(background[t].fn, background[t].inputs))]
    /\ running' = {t}
    /\ pc' = [pc EXCEPT ![t] = "call"]
    /\ UNCHANGED <<started, orchestrator, issued, background, ret, exc,
                   responded, resp>>

\* the collaborator call returns a Result
CollaboratorReturns(t) ==
    /\ pc[t] = "call"
    /\ \E r \in Results(collab[t][1]) : ret' = [ret EXCEPT ![t] = Some(r)]
    /\ pc' = [pc EXCEPT ![t] = "store"]
    /\ UNCHANGED <<started, orchestrator, task_store, issued, background,
                   running, collab, exc, responded, resp>>

\* the collaborator call raises
CollaboratorRaises(t) ==
    /\ pc[t] = "call"
    /\ \E m \in ExcMsgs : exc' = [exc EXCEPT ![t] = Some(m)]
    /\ pc' = [pc EXCEPT ![t] = "except"]
    /\ UNCHANGED <<started, orchestrator, task_store, issued, background,
                   running, collab, ret, responded, resp>>

\* fault variant of ExecStoreStatus: error = result['error'], without a default
ExecStoreStatus_no_default(t) ==
    /\ pc[t] = "store"
    /\ LET r == ret[t][1] IN
       IF r["status"] = "success"
       THEN /\ task_store' = StoreField(t, "status", "completed")
            /\ pc' = [pc EXCEPT ![t] = "result"]
            /\ exc' = exc
       ELSE IF "error" \in DOMAIN r
       THEN /\ task_store' =
                 [task_store EXCEPT ![t] =
                    Put(Put(@, "status", "failed"), "error", r["error"])]
            /\ pc' = [pc EXCEPT ![t] = "stamp"]
            /\ exc' = exc
       ELSE /\ task_store' = StoreField(t, "status", "failed")
            /\ exc' = [exc EXCEPT ![t] = Some(KeyErrorMsg("error"))]
            /\ pc' = [pc EXCEPT ![t] = "except"]
    /\ UNCHANGED <<started, orchestrator, issued, background, running, collab,
                   ret, responded, resp>>

\* fault variant of ExecStoreStatus: the executor also stamps its own task type
\* on the record
ExecStoreStatus_retype(t) ==
    /\ pc[t] = "store"
    /\ LET r == ret[t][1] IN
       IF r["status"] = "success"
       THEN /\ task_store' =
                 [task_store EXCEPT ![t] =
                    Put(Put(@, "status", "completed"), "type",
                        IF background[t].fn = "process_legal_query_task" THEN "legal_query"
                        ELSE IF background[t].fn = "process_document_analysis_task"
                        THEN "document_analysis"
                        ELSE "client_intake")]
            /\ pc' = [pc EXCEPT ![t] = "result"]
       ELSE /\ task_store' =
                 [task_store EXCEPT ![t] =
                    Put(Put(@, "status", "failed"),
                        "error", GetOr(r, "error", "Unknown error occurred"))]
            /\ pc' = [pc EXCEPT ![t] = "stamp"]
    /\ UNCHANGED <<started, orchestrator, issued, background, running, collab,
                   ret, exc, responded, resp>>

\* if result['status'] == 'success': status = "completed"
\* else: status = "failed"; error = result.get('error', 'Unknown error occurred')
ExecStoreStatus(t) ==
    /\ pc[t] = "store"
    /\ LET r == ret[t][1] IN
       IF r["status"] = "success"
       THEN /\ task_store' = StoreField(t, "status", "completed")
            /\ pc' = [pc EXCEPT ![t] = "result"]
       ELSE /\ task_store' =
                 [task_store EXCEPT ![t] =
                    Put(Put(@, "status", "failed"),
                        "error", GetOr(r, "error", "Unknown error occurred"))]
            /\ pc' = [pc EXCEPT ![t] = "stamp"]
    /\ UNCHANGED <<started, orchestrator, issued, background, running, collab,
                   ret, exc, responded, resp>>

\* fault variant of ExecStoreResult: the stored result is filled key by key,
\* so a KeyError leaves a partial result behind
ExecStoreResult_incremental(t) ==
    /\ pc[t] = "result"
    /\ LET r == ret[t][1]
           fn == background[t].fn
       IN IF MissingKeys(ResultKeys(fn), r) = {}
          THEN /\ task_store' = StoreField(t, "result", BuildResult(fn, r, background[t].inputs))
               /\ pc' = [pc EXCEPT ![t] = "stamp"]
               /\ exc' = exc
          ELSE /\ exc' = [exc EXCEPT ![t] = Some(KeyErrorMsg(FirstMissing(ResultKeys(fn), r)))]
               /\ pc' = [pc EXCEPT ![t] = "except"]
               /\ task_store' = StoreField(t, "result", [task_type |-> "partial"])
    /\ UNCHANGED <<started, orchestrator, issued, background, running, collab,
                   ret, responded, resp>>

\* task_store[task_id]["result"] = {...}: the dict display is evaluated first
\* and raises KeyError when the Result lacks a key it reads
ExecStoreResult(t) ==
    /\ pc[t] = "result"
    /\ LET r == ret[t][1]
           fn == background[t].fn
       IN IF MissingKeys(ResultKeys(fn), r) = {}
          THEN /\ task_store' = StoreField(t, "result", BuildResult(fn, r, background[t].inputs))
               /\ pc' = [pc EXCEPT ![t] = "stamp"]
               /\ exc' = exc
          ELSE /\ exc' = [exc EXCEPT ![t] = Some(KeyErrorMsg(FirstMissing(ResultKeys(fn), r)))]
               /\ pc' = [pc EXCEPT ![t] = "except"]
               /\ task_store' = task_store
    /\ UNCHANGED <<started, orchestrator, issued, background, running, collab,
                   ret, responded, resp>>

\* fault variant of ExecStamp: the task is left scheduled and runs again
ExecStamp_requeue(t) ==
    /\ pc[t] = "stamp"
    /\ task_store' = StoreField(t, "completed_at", Now("completed_at", t))
    /\ pc' = [pc EXCEPT ![t] = "scheduled"]
    /\ running' = {}
    /\ collab' = [collab EXCEPT ![t] = None]
    /\ ret' = [ret EXCEPT ![t] = None]
    /\ exc' = [exc EXCEPT ![t] = None]
    /\ UNCHANGED <<started, orchestrator, issued, background, responded, resp>>

\* fault variant of ExecStamp: a finished task is removed from the registry
ExecStamp_evict(t) ==
    /\ pc[t] = "stamp"
    /\ task_store' = Drop(task_store, t)
    /\ pc' = [pc EXCEPT ![t] = "done"]
    /\ running' = {}
    /\ background' = Drop(background, t)
    /\ collab' = [collab EXCEPT ![t] = None]
    /\ ret' = [ret EXCEPT ![t] = None]
    /\ exc' = [exc EXCEPT ![t] = None]
    /\ UNCHANGED <<started, orchestrator, issued, responded, resp>>

\* task_store[task_id]["completed_at"] = datetime.now().isoformat(); the
\* executor returns
ExecStamp(t) ==
    /\ pc[t] = "stamp"
    /\ task_store' = StoreField(t, "completed_at", Now("completed_at", t))
    /\ pc' = [pc EXCEPT ![t] = "done"]
    /\ running' = {}
    /\ background' = Drop(background, t)
    /\ collab' = [collab EXCEPT ![t] = None]
    /\ ret' = [ret EXCEPT ![t] = None]
    /\ exc' = [exc EXCEPT ![t] = None]
    /\ UNCHANGED <<started, orchestrator, issued, responded, resp>>

\* fault variant of ExecExcept: completed_at is not written on this path
ExecExcept_no_stamp(t) ==
    /\ pc[t] = "except"
    /\ task_store' =
         [task_store EXCEPT ![t] = Put(Put(@, "status", "failed"), "error", exc[t][1])]
    /\ pc' = [pc EXCEPT ![t] = "done"]
    /\ running' = {}
    /\ background' = Drop(background, t)
    /\ collab' = [collab EXCEPT ![t] = None]
    /\ ret' = [ret EXCEPT ![t] = None]
    /\ exc' = [exc EXCEPT ![t] = None]
    /\ UNCHANGED <<started, orchestrator, issued, responded, resp>>

\* fault variant of ExecExcept: the exception is swallowed, nothing is recorded
ExecExcept_swallow(t) ==
    /\ pc[t] = "except"
    /\ pc' = [pc EXCEPT ![t] = "done"]
    /\ running' = {}
    /\ background' = Drop(background, t)
    /\ collab' = [collab EXCEPT ![t] = None]
    /\ ret' = [ret EXCEPT ![t] = None]
    /\ exc' = [exc EXCEPT ![t] = None]
    /\ UNCHANGED <<started, orchestrator, task_store, issued, responded, resp>>

\* fault variant of ExecExcept: the collaborator call is made again after a
\* failure
ExecExcept_retry(t) ==
    /\ pc[t] = "except"
    /\ pc' = [pc EXCEPT ![t] = "call"]
    /\ exc' = [exc EXCEPT ![t] = None]
    /\ ret' = [ret EXCEPT ![t] = None]
    /\ UNCHANGED <<started, orchestrator, task_store, issued, background,
                   running, collab, responded, resp>>

\* except Exception as e: status = "failed"; error = str(e); completed_at = now
ExecExcept(t) ==
    /\ pc[t] = "except"
    /\ task_store' =
         [task_store EXCEPT ![t] =
            Put(Put(Put(@, "status", "failed"), "error", exc[t][1]),
                "completed_at", Now("completed_at", t))]
    /\ pc' = [pc EXCEPT ![t] = "done"]
    /\ running' = {}
    /\ background' = Drop(background, t)
    /\ collab' = [collab EXCEPT ![t] = None]
    /\ ret' = [ret EXCEPT ![t] = None]
    /\ exc' = [exc EXCEPT ![t] = None]
    /\ UNCHANGED <<started, orchestrator, issued, responded, resp>>

----------------------------------------------------------------------------
(* The system *)

Next ==
    \/ startup_event
    \/ send_response
    \/ \E c \in CaseTypes : legal_query(c)
    \/ \E a \in AnalysisTypes : analyze_document(a)
    \/ upload_document_begin
    \/ \E t \in TaskIds : upload_document(t)
    \/ \E c \in CaseTypes : client_intake(c)
    \/ \E t \in TaskIds : get_task_status(t)
    \/ get_all_tasks
    \/ health_check
    \/ \E t \in TaskIds : ExecBegin(t)
    \/ \E t \in TaskIds : CollaboratorReturns(t)
    \/ \E t \in TaskIds : CollaboratorRaises(t)
    \/ \E t \in TaskIds : ExecStoreStatus(t)
    \/ \E t \in TaskIds : ExecStoreResult(t)
    \/ \E t \in TaskIds : ExecStamp(t)
    \/ \E t \in TaskIds : ExecExcept(t)

Spec == Init /\ [][Next]_vars

\* Fairness: an executor that holds the event loop runs its next statement
\* (there is no await between the collaborator call and the executor's
\* return, so nothing else can take the loop).  Nothing makes a collaborator
\* call end.
Fairness ==
    WF_vars(\E t \in TaskIds :
               \/ ExecStoreStatus(t)
               \/ ExecStoreResult(t)
               \/ ExecStamp(t)
               \/ ExecExcept(t))

\* The steps that decide whether a task gets done: startup, the submit
\* endpoints, the sending of their responses, the executors and the
\* collaborator.  The read-only endpoints only produce a response, as a
\* refused submit does, and are enabled only while no executor runs.  No
\* executor branches on the request payload before its collaborator call
\* ends, so one payload per endpoint is drawn.
ProgressNext ==
    \/ startup_event
    \/ send_response
    \/ legal_query("corporate")
    \/ analyze_document("risk_assessment")
    \/ upload_document_begin
    \/ \E t \in TaskIds : upload_document(t)
    \/ client_intake("appeals")
    \/ \E t \in TaskIds : ExecBegin(t)
    \/ \E t \in TaskIds : CollaboratorReturns(t)
    \/ \E t \in TaskIds : CollaboratorRaises(t)
    \/ \E t \in TaskIds : ExecStoreStatus(t)
    \/ \E t \in TaskIds : ExecStoreResult(t)
    \/ \E t \in TaskIds : ExecStamp(t)
    \/ \E t \in TaskIds : ExecExcept(t)

FairSpec == Init /\ [][ProgressNext]_vars /\ Fairness

----------------------------------------------------------------------------
(* Vocabulary of the properties *)

\* this step produces the response to a request
Answers == resp = None /\ resp' # None

\* this step accepts a submission
AcceptsSubmission == Answers /\ resp'[1].op \in SubmitOps /\ resp'[1].code = 200

\* the record of t is stored and its executor is not in the middle of a run
Settled(t) == t \in DOMAIN task_store /\ t \notin running

\* the executor run of t has ended
Finished(t) == t \in DOMAIN task_store /\ "completed_at" \in DOMAIN task_store[t]

StatusOf(t) == task_store[t]["status"]

\* this step is the return of t's executor
ExecutorReturns(t) == pc[t] # "done" /\ pc'[t] = "done"

\* the collaborator call of t's executor failed: it raised, or it returned a
\* Result whose status is not success
DownstreamFailed(t) ==
    \/ ret[t] = None /\ exc[t] # None
    \/ ret[t] # None /\ ret[t][1]["status"] # "success"

\* the message of that failure
FailureMessage(t) ==
    IF ret[t] = None THEN exc[t][1]
    ELSE GetOr(ret[t][1], "error", "Unknown error occurred")

----------------------------------------------------------------------------
(* C1: every accepted submission returns a task_id that was not a key of the
   registry before the call, answers with status "pending", leaves a record
   with status "pending" under that task_id, and overwrites no record. *)
C1_SubmitCreatesFreshPending ==
    [][AcceptsSubmission =>
         LET tid == resp'[1].body.task_id IN
           /\ tid \notin DOMAIN task_store
           /\ resp'[1].body.status = "pending"
           /\ tid \in DOMAIN task_store'
           /\ task_store'[tid]["status"] = "pending"
           /\ \A u \in DOMAIN task_store :
                u \in DOMAIN task_store' /\ task_store'[u] = task_store[u]]_vars

\* a submission is accepted while an earlier task has already finished
C1_Witness ==
    /\ resp # None
    /\ resp[1].op \in SubmitOps
    /\ resp[1].code = 200
    /\ \E u \in DOMAIN task_store : u # resp[1].body.task_id /\ Finished(u)

(* C2: the values written to a record's status only ever go
   pending -> processing, processing -> completed or processing -> failed;
   never completed -> failed, never backwards, never past processing. *)
C2_StatusMonotonic ==
    [][\A t \in DOMAIN task_store :
         /\ t \in DOMAIN task_store'
         /\ task_store'[t]["status"] # StatusOf(t) =>
              <<StatusOf(t), task_store'[t]["status"]>> \in
                 {<<"pending", "processing">>, <<"processing", "completed">>,
                  <<"processing", "failed">>}]_vars

(* C3, as stated: once a record's status is completed or failed, no later
   step of any operation changes any field of the record. *)
C3_TerminalStatusFreezesRecord ==
    [][\A t \in DOMAIN task_store :
         IsTerminal(StatusOf(t)) =>
           t \in DOMAIN task_store' /\ task_store'[t] = task_store[t]]_vars

(* C3, amended: once a record's executor run has ended (completed_at is
   written, the run's last write), no later step of any operation changes
   any field of the record. *)
C3_FinishedRecordImmutable ==
    [][\A t \in DOMAIN task_store :
         Finished(t) =>
           t \in DOMAIN task_store' /\ task_store'[t] = task_store[t]]_vars

\* a record has finished and another task's executor is about to write
C3_Witness ==
    \E t, u \in TaskIds :
       /\ t # u
       /\ Finished(t)
       /\ pc[u] \in {"store", "result", "stamp", "except"}

(* C4: in every state a request handler can observe, a record has
   completed_at exactly when its status is completed or failed; and a status
   response reports completed_at exactly for those statuses. *)
C4_CompletedAtIffTerminal ==
    /\ running = {} =>
         \A t \in DOMAIN task_store :
            ("completed_at" \in DOMAIN task_store[t]) <=> IsTerminal(StatusOf(t))
    /\ (resp # None /\ resp[1].op = "get_task_status" /\ resp[1].code = 200) =>
         ((resp[1].body.completed_at # None) <=> IsTerminal(resp[1].body.status))

\* a status query reports a failed task while another task is still pending
C4_Witness ==
    /\ resp # None
    /\ resp[1].op = "get_task_status"
    /\ resp[1].code = 200
    /\ resp[1].body.status = "failed"
    /\ resp[1].body.completed_at # None
    /\ \E u \in DOMAIN task_store :
          StatusOf(u) = "pending" /\ "completed_at" \notin DOMAIN task_store[u]

(* C5: while the orchestrator is not initialized, every call of a submit
   endpoint is answered 503, creates no record and schedules no background
   execution. *)
C5_NotReadyRejects ==
    [][(Answers /\ resp'[1].op \in SubmitOps /\ ~orchestrator) =>
         /\ resp'[1].code = 503
         /\ task_store' = task_store
         /\ background' = background
         /\ pc' = pc
         /\ issued' = issued]_vars
    /\ [](~orchestrator => \A t \in TaskIds : pc[t] = "idle")

\* an upload is refused before anything was ever stored or scheduled
C5_Witness ==
    /\ resp # None
    /\ resp[1].op = "upload_document"
    /\ resp[1].code = 503
    /\ task_store = EmptyDict
    /\ background = EmptyDict

(* C6: a status query for an identifier that is not a key of the registry is
   answered 404 and changes nothing; a status query for a key is never
   answered 404. *)
C6_UnknownIdNotFound ==
    [][(Answers /\ resp'[1].op = "get_task_status") =>
         /\ task_store' = task_store
         /\ (resp'[1].request \notin DOMAIN task_store) <=> (resp'[1].code = 404)]_vars

\* an unknown identifier is refused while the registry holds another record
C6_Witness ==
    /\ resp # None
    /\ resp[1].op = "get_task_status"
    /\ resp[1].code = 404
    /\ task_store # EmptyDict
    /\ resp[1].request \notin DOMAIN task_store

(* C7: no record ever has both a result and an error; a completed record
   whose executor has returned has a result with an output and no error; a
   failed one has an error and no result. *)
C7_ResultXorError ==
    \A t \in DOMAIN task_store :
       LET r == task_store[t] IN
         /\ ~("result" \in DOMAIN r /\ "error" \in DOMAIN r)
         /\ (Settled(t) /\ r["status"] = "completed") =>
              /\ "result" \in DOMAIN r
              /\ "output" \in DOMAIN r["result"]
              /\ "error" \notin DOMAIN r
         /\ (Settled(t) /\ r["status"] = "failed") =>
              /\ "error" \in DOMAIN r
              /\ "result" \notin DOMAIN r

\* one task has completed and another has failed
C7_Witness ==
    \E t, u \in DOMAIN task_store :
       /\ Settled(t) /\ StatusOf(t) = "completed" /\ "result" \in DOMAIN task_store[t]
       /\ Settled(u) /\ StatusOf(u) = "failed" /\ "error" \in DOMAIN task_store[u]

(* C8: when a task's collaborator call raises or returns a Result whose
   status is not success, the executor returns with the record at status
   failed and the failure's message in error ("Unknown error occurred" when
   the Result carries none); no executor step touches a response. *)
C8_DownstreamFailureCaptured ==
    [][/\ \A t \in TaskIds :
            (ExecutorReturns(t) /\ DownstreamFailed(t)) =>
               /\ task_store'[t]["status"] = "failed"
               /\ task_store'[t]["error"] = FailureMessage(t)
               /\ running' = {}
       /\ (running # {} \/ running' # {}) => resp' = resp]_vars

\* one task failed by an exception, another by an error Result without message
C8_Witness ==
    \E t, u \in DOMAIN task_store :
       /\ Finished(t) /\ StatusOf(t) = "failed" /\ task_store[t]["error"] \in ExcMsgs
       /\ Finished(u) /\ StatusOf(u) = "failed"
       /\ task_store[u]["error"] = "Unknown error occurred"

(* C9: under fair scheduling, a task whose collaborator call has returned or
   raised eventually has a terminal status; a task whose collaborator call
   has not ended has no terminal status, and only the end of that call moves
   the executor on. *)
C9_TerminatesIffCallEnds ==
    /\ \A t \in TaskIds :
         (pc[t] \in {"store", "except"}) ~> (Finished(t) /\ IsTerminal(StatusOf(t)))
    /\ [](\A t \in TaskIds : pc[t] = "call" => StatusOf(t) = "processing")
    /\ [][\A t \in TaskIds :
            (pc[t] = "call" /\ pc'[t] # "call") => (ret'[t] # None \/ exc'[t] # None)]_vars

\* one task is terminal while the call of another has not ended
C9_Witness ==
    \E t, u \in TaskIds :
       /\ Finished(t) /\ IsTerminal(StatusOf(t))
       /\ pc[u] = "call"

(* C10: an executor's first write happens only after the submit call has
   stored the pending record and its response has left; an executor never
   stands against a missing record; a submit answers before any
   collaborator call for its task. *)
C10_ExecutorAfterSubmit ==
    /\ [][\A t \in TaskIds :
            (pc[t] = "scheduled" /\ pc'[t] # "scheduled") =>
               /\ t \in DOMAIN task_store
               /\ StatusOf(t) = "pending"
               /\ t \in responded
               /\ resp = None
               /\ task_store'[t]["status"] = "processing"]_vars
    /\ [][AcceptsSubmission =>
            /\ pc'[resp'[1].body.task_id] = "scheduled"
            /\ collab'[resp'[1].body.task_id] = None]_vars
    /\ [](\A t \in TaskIds :
            pc[t] \in {"scheduled", "call", "store", "result", "stamp", "except", "done"}
               => t \in DOMAIN task_store)

\* an executor has started for an uploaded document whose record was stored
\* after the handler resumed
C10_Witness ==
    \E t \in DOMAIN task_store :
       /\ task_store[t]["type"] = "document_upload"
       /\ pc[t] = "call"
       /\ StatusOf(t) = "processing"
       /\ t \in responded

----------------------------------------------------------------------------
(* Read-only endpoints and the registry as a whole *)

\* the step leaves everything but the response in flight as it was
OnlyAnswers ==
    UNCHANGED <<started, orchestrator, task_store, issued, background, pc,
                running, collab, ret, exc, responded>>

\* the step answers a status query for a known task
AnswersStatus ==
    Answers /\ resp'[1].op = "get_task_status" /\ resp'[1].code = 200

\* the returned value v is the stored field k of rec (null when rec lacks it)
ReturnsField(rec, k, v) ==
    IF k \in DOMAIN rec THEN v = Some(rec[k]) ELSE v = None

\* the status, result, error, created_at and completed_at of the answer are
\* those of the stored record
StatusFieldsVerbatim ==
    LET rec == task_store[resp'[1].request]
        b == resp'[1].body
    IN  /\ b.task_id = resp'[1].request
        /\ b.status = rec["status"]
        /\ b.created_at = rec["created_at"]
        /\ ReturnsField(rec, "result", b.result)
        /\ ReturnsField(rec, "error", b.error)
        /\ ReturnsField(rec, "completed_at", b.completed_at)

(* C11, as stated: a status query for a known identifier returns status,
   result, error, created_at and completed_at equal to the stored values,
   returns every stored field of the record, and changes nothing. *)
C11_StatusReturnsWholeRecord ==
    [][AnswersStatus =>
         /\ StatusFieldsVerbatim
         /\ DOMAIN task_store[resp'[1].request] \subseteq DOMAIN resp'[1].body
         /\ OnlyAnswers]_vars

(* C11, amended: a status query for a known identifier returns task_id,
   status, result, error, created_at and completed_at equal to the stored
   values (null for a field not stored yet) and changes nothing; the stored
   type, and the filename of an uploaded document, are not returned. *)
C11_StatusReturnsStatusFields ==
    [][AnswersStatus =>
         /\ StatusFieldsVerbatim
         /\ DOMAIN resp'[1].body =
              {"task_id", "status", "result", "error", "created_at", "completed_at"}
         /\ "type" \in DOMAIN task_store[resp'[1].request]
         /\ DOMAIN task_store[resp'[1].request] \ DOMAIN resp'[1].body
              \subseteq {"type", "filename"}
         /\ OnlyAnswers]_vars

\* the status of a failed upload is being returned with its error message
C11_Witness ==
    /\ resp # None
    /\ resp[1].op = "get_task_status"
    /\ resp[1].code = 200
    /\ resp[1].body.status = "failed"
    /\ resp[1].body.error # None
    /\ "filename" \in DOMAIN task_store[resp[1].request]

\* the step is a statement of the executor run for t
ExecutorStep(t) ==
    /\ pc[t] \in {"scheduled", "call", "store", "result", "stamp", "except"}
    /\ pc'[t] # pc[t]

(* C12: a step of the executor run for T leaves every record other than T's
   as it was, and an existing record changes only in a step of its own
   executor run. *)
C12_ExecutorWritesOwnRecordOnly ==
    /\ [][\A t \in TaskIds :
            ExecutorStep(t) =>
              \A u \in DOMAIN task_store \ {t} :
                 u \in DOMAIN task_store' /\ task_store'[u] = task_store[u]]_vars
    /\ [][\A u \in DOMAIN task_store :
            (u \notin DOMAIN task_store' \/ task_store'[u] # task_store[u])
               => ExecutorStep(u)]_vars

\* an executor is about to write its completion time while another task,
\* submitted in between, still waits with its pending record
C12_Witness ==
    \E t, u \in DOMAIN task_store :
       /\ t # u
       /\ pc[t] = "stamp"
       /\ pc[u] = "scheduled"
       /\ StatusOf(u) = "pending"

(* C13: an accepted submission schedules one executor run, for its own
   identifier, and nothing else schedules a run; a run starts only from its
   scheduled entry, calls the collaborator only as it starts, and after the
   call has ended the task is never scheduled or called again. *)
C13_OneRunOneCall ==
    /\ [][AcceptsSubmission =>
            /\ resp'[1].body.task_id \notin DOMAIN background
            /\ DOMAIN background' = DOMAIN background \cup {resp'[1].body.task_id}]_vars
    /\ [][~AcceptsSubmission => DOMAIN background' \subseteq DOMAIN background]_vars
    /\ [][\A t \in TaskIds :
            /\ (pc'[t] = "call" /\ pc[t] # "call") =>
                  (pc[t] = "scheduled" /\ t \in DOMAIN background)
            /\ (pc'[t] = "scheduled" /\ pc[t] # "scheduled") =>
                  (pc[t] \in {"idle", "upload"} /\ AcceptsSubmission
                   /\ resp'[1].body.task_id = t)
            /\ pc[t] \in {"store", "result", "stamp", "except", "done"} =>
                  pc'[t] \notin {"scheduled", "call"}]_vars

\* a run has ended in failure and the event loop is free again
C13_Witness ==
    \E t \in DOMAIN task_store :
       /\ pc[t] = "done"
       /\ StatusOf(t) = "failed"
       /\ t \notin DOMAIN background
       /\ LoopFree

(* C14: no step removes a key from the registry; the key set changes only
   in an accepted submission, which adds exactly one key. *)
C14_RegistryOnlyGrows ==
    [][/\ DOMAIN task_store \subseteq DOMAIN task_store'
       /\ AcceptsSubmission =>
            /\ DOMAIN task_store' = DOMAIN task_store \cup {resp'[1].body.task_id}
            /\ Cardinality(DOMAIN task_store') = Cardinality(DOMAIN task_store) + 1
       /\ ~AcceptsSubmission => DOMAIN task_store' = DOMAIN task_store]_vars

\* every task that was ever submitted has finished and is still registered
C14_Witness ==
    /\ DOMAIN task_store = TaskIds
    /\ \A t \in TaskIds : Finished(t) /\ pc[t] = "done"

\* the step answers a task listing
AnswersListing == Answers /\ resp'[1].op = "get_all_tasks"

(* C15: the task listing succeeds whether or not the orchestrator is
   initialized, returns exactly one summary (task_id, status, type,
   created_at) per registry record and no other, a total equal to the number
   of records, and leaves the registry unchanged. *)
C15_ListingOnePerRecord ==
    [][AnswersListing =>
         LET b == resp'[1].body IN
           /\ resp'[1].code = 200
           /\ b.total = Cardinality(DOMAIN task_store)
           /\ Len(b.tasks) = b.total
           /\ \A tid \in DOMAIN task_store :
                /\ Cardinality({i \in DOMAIN b.tasks : b.tasks[i].task_id = tid}) = 1
                /\ \E i \in DOMAIN b.tasks :
                     b.tasks[i] = [task_id |-> tid,
                                   status |-> task_store[tid]["status"],
                                   type |-> Some(task_store[tid]["type"]),
                                   created_at |-> task_store[tid]["created_at"]]
           /\ \A i \in DOMAIN b.tasks : b.tasks[i].task_id \in DOMAIN task_store
           /\ ~orchestrator => b.total = 0
           /\ OnlyAnswers]_vars

\* a listing is being returned with a completed task and one not yet run
C15_Witness ==
    /\ resp # None
    /\ resp[1].op = "get_all_tasks"
    /\ \E i, j \in DOMAIN resp[1].body.tasks :
          /\ resp[1].body.tasks[i].status = "completed"
          /\ resp[1].body.tasks[j].status = "pending"

\* a legal query, a document, an upload or a client intake submitted in this
\* state is turned away with 503
SubmitRejected ==
    /\ ENABLED ((\E c \in CaseTypes : legal_query(c)) /\ resp'[1].code = 503)
    /\ ENABLED ((\E a \in AnalysisTypes : analyze_document(a)) /\ resp'[1].code = 503)
    /\ ENABLED (upload_document_begin /\ resp' # None /\ resp'[1].code = 503)
    /\ ENABLED ((\E c \in CaseTypes : client_intake(c)) /\ resp'[1].code = 503)

\* a submission in this state is taken on (identifiers never run out in the
\* program; here they do once MaxTasks were issued)
SubmitAccepted ==
    /\ ENABLED ((\E c \in CaseTypes : legal_query(c)) /\ resp'[1].code = 200)
    /\ ENABLED ((\E a \in AnalysisTypes : analyze_document(a)) /\ resp'[1].code = 200)
    /\ ENABLED (upload_document_begin /\ resp' = None)
    /\ ENABLED ((\E c \in CaseTypes : client_intake(c)) /\ resp'[1].code = 200)

(* C16: the health answer is always 200 "healthy"; it says "ready" exactly
   when no submit of the same state would be turned away with 503 (and a
   submit would be accepted), "not ready" exactly when every submit would be
   turned away; and it changes no state. *)
C16_HealthAgreesWithSubmit ==
    [][(Answers /\ resp'[1].op = "health_check") =>
         LET b == resp'[1].body IN
           /\ resp'[1].code = 200
           /\ b.status = "healthy"
           /\ b.orchestrator \in {"ready", "not ready"}
           /\ b.orchestrator = "not ready" <=> SubmitRejected
           /\ b.orchestrator = "ready" <=> ~SubmitRejected
           /\ uuid4 # {} => (b.orchestrator = "ready" <=> SubmitAccepted)
           /\ OnlyAnswers]_vars

\* the health check answers "not ready" after a failed start
C16_Witness ==
    /\ resp # None
    /\ resp[1].op = "health_check"
    /\ resp[1].body.orchestrator = "not ready"
    /\ ~orchestrator

----------------------------------------------------------------------------
(* JurisAIOrchestrator (crew.py): one call of process_legal_query or
   analyze_document, from the try statement to the return *)

\* the calls api.py makes on the orchestrator
OrchestratorCalls ==
    {[method |-> "process_legal_query", query |-> "q", client_type |-> c,
      jurisdiction |-> "federal"] : c \in {"citizen", "business", "lawyer"}}
    \cup {[method |-> "analyze_document", document_content |-> "doc",
           analysis_focus |-> f, client_type |-> "citizen"] : f \in {"general", "risk"}}

\* the dict returned at the end of the try block
SuccessResult(call, payload) ==
    IF call.method = "process_legal_query"
    THEN [status |-> "success", result |-> payload,
          client_type |-> call.client_type, query |-> call.query]
    ELSE [status |-> "success", result |-> payload,
          analysis_focus |-> call.analysis_focus, client_type |-> call.client_type]

\* the dict returned by the except clause; message is str(e)
ErrorResult(call, message) ==
    IF call.method = "process_legal_query"
    THEN [status |-> "error", error |-> message, query |-> call.query]
    ELSE [status |-> "error", error |-> message, analysis_focus |-> call.analysis_focus]

\* the method is entered: control is inside its try block
OrchestratorCalled(t) ==
    /\ started /\ orchestrator
    /\ running = {}
    /\ pc[t] = "idle"
    /\ \E call \in OrchestratorCalls : collab' = [collab EXCEPT ![t] = Some(call)]
    /\ running' = {t}
    /\ pc' = [pc EXCEPT ![t] = "try"]
    /\ UNCHANGED <<started, orchestrator, task_store, issued, background, ret,
                   exc, responded, resp>>

\* a statement of the try block raises: the agent and task factories, the
\* Crew constructor or kickoff
TryRaises(t) ==
    /\ pc[t] = "try"
    /\ \E m \in ErrMsgs : exc' = [exc EXCEPT ![t] = Some(m)]
    /\ pc' = [pc EXCEPT ![t] = "except"]
    /\ UNCHANGED <<started, orchestrator, task_store, issued, background,
                   running, collab, ret, responded, resp>>

\* kickoff returns and the try block returns the success dict
TryReturns(t) ==
    /\ pc[t] = "try"
    /\ ret' = [ret EXCEPT ![t] =
                 Some(SuccessResult(collab[t][1],
                                    IF collab[t][1].method = "process_legal_query"
                                    THEN [raw |-> "advice"] ELSE [raw |-> "analysis"]))]
    /\ pc' = [pc EXCEPT ![t] = "returned"]
    /\ running' = {}
    /\ UNCHANGED <<started, orchestrator, task_store, issued, background,
                   collab, exc, responded, resp>>

\* fault variant of OrchestratorExcept: the exception is raised again
OrchestratorExcept_reraise(t) ==
    /\ pc[t] = "except"
    /\ pc' = [pc EXCEPT ![t] = "raised"]
    /\ running' = {}
    /\ UNCHANGED <<started, orchestrator, task_store, issued, background,
                   collab, ret, exc, responded, resp>>

\* except Exception as e: return {'status': 'error', 'error': str(e), ...}
OrchestratorExcept(t) ==
    /\ pc[t] = "except"
    /\ ret' = [ret EXCEPT ![t] = Some(ErrorResult(collab[t][1], exc[t][1]))]
    /\ exc' = [exc EXCEPT ![t] = None]
    /\ pc' = [pc EXCEPT ![t] = "returned"]
    /\ running' = {}
    /\ UNCHANGED <<started, orchestrator, task_store, issued, background,
                   collab, responded, resp>>

OrchestratorNext ==
    \/ startup_event
    \/ \E t \in TaskIds : OrchestratorCalled(t)
    \/ \E t \in TaskIds : TryRaises(t)
    \/ \E t \in TaskIds : TryReturns(t)
    \/ \E t \in TaskIds : OrchestratorExcept(t)

OrchestratorSpec == Init /\ [][OrchestratorNext]_vars

(* C17: a call of process_legal_query or analyze_document never leaves by an
   exception; when it has returned, it has returned a Result whose status is
   success, with a result payload, or error, with an error message, and the
   Result is one the executors are modelled to receive. *)
C17_OrchestratorNeverRaises ==
    \A t \in TaskIds :
       /\ pc[t] \in {"idle", "try", "except", "returned"}
       /\ pc[t] = "except" => exc[t] # None
       /\ pc[t] = "returned" =>
            /\ ret[t] # None
            /\ exc[t] = None
            /\ \/ ret[t][1].status = "success" /\ "result" \in DOMAIN ret[t][1]
               \/ /\ ret[t][1].status = "error"
                  /\ "error" \in DOMAIN ret[t][1]
                  /\ ret[t][1].error \in ErrMsgs
            /\ ret[t][1] \in Results(collab[t][1])

\* a document analysis whose crew raised has returned an error Result
C17_Witness ==
    \E t \in TaskIds :
       /\ pc[t] = "returned"
       /\ collab[t][1].method = "analyze_document"
       /\ ret[t][1].status = "error"

----------------------------------------------------------------------------
(* The request payloads the executors map to collaborator arguments *)

\* a JSON null in an Optional[str] field: a value equal to no string the
\* executors compare it with
NoValue == "<None>"

\* case_type values a request may carry: the five the code names, the
\* default, and two it does not name
AnyCaseType ==
    {"corporate", "intellectual_property", "business", "complex_litigation",
     "appeals", "general", "family", "Corporate"}

\* analysis_type values a request may carry: the four the code names and one
\* it does not
AnyAnalysisType ==
    {"comprehensive", "risk_assessment", "contract_review", "compliance", "summary"}

\* submissions with any payload, up to the collaborator call of an executor
PayloadNext ==
    \/ startup_event
    \/ send_response
    \/ \E c \in AnyCaseType \cup {NoValue} : legal_query(c)
    \/ \E a \in AnyAnalysisType \cup {NoValue} : analyze_document(a)
    \/ upload_document_begin
    \/ \E t \in TaskIds : upload_document(t)
    \/ \E c \in AnyCaseType : client_intake(c)
    \/ \E t \in TaskIds : ExecBegin(t)

PayloadSpec == Init /\ [][PayloadNext]_vars

\* the executor run for t is a legal-query or client-intake run standing at
\* its collaborator call
CallsForCase(t) ==
    /\ pc[t] = "call"
    /\ background[t].fn \in {"process_legal_query_task", "process_client_intake_task"}

(* C18: get_client_type is total over case types: business for corporate,
   intellectual_property and business, lawyer for complex_litigation and
   appeals, citizen for every other value and for null; the legal-query and
   client-intake executors pass exactly that value as client_type. *)
C18_ClientTypeMapping ==
    LET claimed(c) ==
          CASE c = "corporate" -> "business"
            [] c = "intellectual_property" -> "business"
            [] c = "business" -> "business"
            [] c = "complex_litigation" -> "lawyer"
            [] c = "appeals" -> "lawyer"
            [] OTHER -> "citizen"
    IN  /\ \A c \in AnyCaseType \cup {NoValue} : get_client_type(c) = claimed(c)
        /\ \A t \in TaskIds :
              CallsForCase(t) =>
                 /\ collab[t][1].method = "process_legal_query"
                 /\ collab[t][1].client_type = claimed(background[t].inputs["case_type"])

\* a legal query about intellectual property is passed on as a business
\* client while a legal query without a case type waits
C18_Witness ==
    \E t, u \in TaskIds :
       /\ CallsForCase(t)
       /\ background[t].inputs["case_type"] = "intellectual_property"
       /\ collab[t][1].client_type = "business"
       /\ pc[u] = "scheduled"
       /\ background[u].fn = "process_legal_query_task"
       /\ background[u].inputs["case_type"] = NoValue

\* the executor run for t is a document run standing at its collaborator call
CallsForDocument(t) ==
    /\ pc[t] = "call"
    /\ background[t].fn = "process_document_analysis_task"

(* C19: the document executor passes focus general for comprehensive, risk
   for risk_assessment, contract for contract_review, compliance for
   compliance and general for any other or absent analysis type; an upload
   is always analysed with focus general; every document task is passed
   client type citizen. *)
C19_AnalysisFocusMapping ==
    LET claimed(a) ==
          CASE a = "comprehensive" -> "general"
            [] a = "risk_assessment" -> "risk"
            [] a = "contract_review" -> "contract"
            [] a = "compliance" -> "compliance"
            [] OTHER -> "general"
    IN  \A t \in TaskIds :
           /\ CallsForDocument(t) =>
                /\ collab[t][1].method = "analyze_document"
                /\ collab[t][1].analysis_focus = claimed(background[t].inputs["analysis_type"])
                /\ collab[t][1].client_type = "citizen"
                /\ task_store[t]["type"] = "document_upload" =>
                      collab[t][1].analysis_focus = "general"
           /\ (t \in DOMAIN task_store /\ task_store[t]["type"] \in
                 {"document_analysis", "document_upload"} /\ t \in DOMAIN background)
                => background[t].fn = "process_document_analysis_task"

\* a document with an analysis type the map does not name is analysed with
\* focus general while an upload waits
C19_Witness ==
    \E t, u \in TaskIds :
       /\ CallsForDocument(t)
       /\ background[t].inputs["analysis_type"] = "summary"
       /\ collab[t][1].analysis_focus = "general"
       /\ u \in DOMAIN task_store
       /\ task_store[u]["type"] = "document_upload"

----------------------------------------------------------------------------
(* The fields a record keeps from its creation *)

(* C20: an accepted submission stores the type of its endpoint
   (legal_query, document_analysis, document_upload, client_intake), and no
   later step changes the type or the created_at of a record. *)
C20_TypeAndCreatedAtFixed ==
    /\ [][AcceptsSubmission =>
            task_store'[resp'[1].body.task_id]["type"] =
               CASE resp'[1].op = "legal_query" -> "legal_query"
                 [] resp'[1].op = "analyze_document" -> "document_analysis"
                 [] resp'[1].op = "upload_document" -> "document_upload"
                 [] resp'[1].op = "client_intake" -> "client_intake"]_vars
    /\ [][\A t \in DOMAIN task_store :
            /\ t \in DOMAIN task_store'
            /\ {"type", "created_at"} \subseteq DOMAIN task_store'[t]
            /\ task_store'[t]["type"] = task_store[t]["type"]
            /\ task_store'[t]["created_at"] = task_store[t]["created_at"]]_vars

\* an uploaded document has been analysed: its result says document_analysis,
\* its record still document_upload
C20_Witness ==
    \E t \in DOMAIN task_store :
       /\ Finished(t)
       /\ StatusOf(t) = "completed"
       /\ task_store[t]["type"] = "document_upload"
       /\ task_store[t]["result"].task_type = "document_analysis"

----------------------------------------------------------------------------
(* The event loop and the readiness of the service *)

\* the records whose status is processing
Processing == {t \in DOMAIN task_store : StatusOf(t) = "processing"}

\* the step is a statement of a request handler: it answers a request, or it
\* is the upload handler running up to its await
HandlerStep == Answers \/ issued' # issued

(* C21: no request handler runs while a record is in processing: every
   handler step starts and ends with no record in processing, every status
   answer and every listed summary carries pending, completed or failed, a
   record is in processing only while its own executor occupies the event
   loop, and at most one record is in processing in any state. *)
C21_NoHandlerDuringProcessing ==
    /\ [][HandlerStep => (Processing = {} /\ running = {} /\ Processing' = {})]_vars
    /\ [][AnswersStatus =>
            resp'[1].body.status \in {"pending", "completed", "failed"}]_vars
    /\ [][AnswersListing =>
            \A i \in DOMAIN resp'[1].body.tasks :
               resp'[1].body.tasks[i].status \in {"pending", "completed", "failed"}]_vars
    /\ [](/\ Cardinality(Processing) <= 1
          /\ Processing \subseteq running
          /\ Processing # {} => resp = None)

\* a record is in processing, inside its collaborator call, while an upload
\* request is suspended at its await
C21_Witness ==
    \E t, u \in TaskIds :
       /\ t \in Processing
       /\ pc[t] = "call"
       /\ pc[u] = "upload"

(* C22: readiness is decided by the startup event and never changes after
   it: the service starts whether or not the constructor raised; once it
   has started the orchestrator stays as it is in every later step; after a
   failed start every submit is answered 503 and the registry stays empty. *)
C22_ReadinessFixedAtStartup ==
    /\ [][started => (started' /\ orchestrator' = orchestrator)]_vars
    /\ [][(Answers /\ resp'[1].op \in SubmitOps /\ ~orchestrator) =>
            resp'[1].code = 503]_vars
    /\ []((started /\ ~orchestrator) =>
            (task_store = EmptyDict /\ background = EmptyDict /\ issued = {}))
    /\ [](~started => (~orchestrator /\ task_store = EmptyDict /\ resp = None))

\* after a failed start a client intake is being turned away, nothing is
\* registered
C22_Witness ==
    /\ started
    /\ ~orchestrator
    /\ resp # None
    /\ resp[1].op = "client_intake"
    /\ resp[1].code = 503
    /\ task_store = EmptyDict

====
